---- MODULE Spec2Model ----
(***************************************************************************)
(* Model of src/src/components/revenuecalculator.js: the RevenueCalculator *)
(* React component.  Hook state, the useEffect that derives the annual     *)
(* projection and the monthly chart series, the three onChange handlers    *)
(* and the render that commits the visible output.                         *)
(*                                                                         *)
(* JavaScript numbers are modelled as exact rationals extended with        *)
(* Infinity, -Infinity and NaN (the outcomes of a division by zero);       *)
(* the sign of zero and binary rounding error are not modelled.            *)
(***************************************************************************)
EXTENDS Integers, Sequences, FiniteSets, TLC

VARIABLES experimentDays, controlRevenue, variantRevenue,
          chartData, annualProjection, deps, dom, pc, lastEdit

vars == <<experimentDays, controlRevenue, variantRevenue,
          chartData, annualProjection, deps, dom, pc, lastEdit>>

(***************************************************************************)
(* Bounds of the model.                                                    *)
(***************************************************************************)
MaxDays == 2
MaxRevenueSteps == 2
PairMaxRevenueSteps == 1

(***************************************************************************)
(* JavaScript number arithmetic.                                           *)
(***************************************************************************)
Abs(x) == IF x < 0 THEN -x ELSE x

Sign(x) == IF x < 0 THEN -1 ELSE IF x > 0 THEN 1 ELSE 0

RECURSIVE GCD(_, _)
GCD(a, b) == IF b = 0 THEN a ELSE GCD(b, a % b)

\* The finite number n/d, d # 0, in lowest terms with a positive denominator.
Fin(n, d) ==
    LET g == GCD(Abs(n), Abs(d))
    IN  [k |-> "fin", n |-> (Sign(d) * n) \div g, d |-> Abs(d) \div g]

Infinity == [k |-> "inf", n |-> 1, d |-> 0]
NegInfinity == [k |-> "inf", n |-> -1, d |-> 0]
NaN == [k |-> "nan", n |-> 0, d |-> 0]

Signed(s) == IF s > 0 THEN Infinity ELSE IF s < 0 THEN NegInfinity ELSE NaN

IsFinite(a) == a.k = "fin"

JsSub(a, b) ==
    IF a.k = "nan" \/ b.k = "nan" THEN NaN
    ELSE IF a.k = "fin" /\ b.k = "fin" THEN Fin(a.n * b.d - b.n * a.d, a.d * b.d)
    ELSE IF a.k = "inf" /\ b.k = "inf" THEN (IF a.n = b.n THEN NaN ELSE a)
    ELSE IF a.k = "inf" THEN a
    ELSE Signed(-b.n)

JsAdd(a, b) ==
    IF a.k = "nan" \/ b.k = "nan" THEN NaN
    ELSE IF a.k = "fin" /\ b.k = "fin" THEN Fin(a.n * b.d + b.n * a.d, a.d * b.d)
    ELSE IF a.k = "inf" /\ b.k = "inf" THEN (IF a.n = b.n THEN a ELSE NaN)
    ELSE IF a.k = "inf" THEN a
    ELSE b

JsMul(a, b) ==
    IF a.k = "nan" \/ b.k = "nan" THEN NaN
    ELSE IF a.k = "fin" /\ b.k = "fin" THEN Fin(a.n * b.n, a.d * b.d)
    ELSE Signed(Sign(a.n) * Sign(b.n))

JsDiv(a, b) ==
    IF a.k = "nan" \/ b.k = "nan" THEN NaN
    ELSE IF a.k = "fin" /\ b.k = "fin"
         THEN (IF b.n = 0 THEN Signed(Sign(a.n)) ELSE Fin(a.n * b.d, a.d * b.n))
    ELSE IF a.k = "inf" /\ b.k = "inf" THEN NaN
    ELSE IF a.k = "inf" THEN (IF b.n < 0 THEN Signed(-a.n) ELSE a)
    ELSE Fin(0, 1)

\* a <= b; every comparison with NaN is false.
JsLeq(a, b) ==
    IF a.k = "nan" \/ b.k = "nan" THEN FALSE
    ELSE IF a.k = "fin" /\ b.k = "fin" THEN a.n * b.d <= b.n * a.d
    ELSE IF a.k = "inf" THEN (a.n < 0 \/ (b.k = "inf" /\ b.n > 0))
    ELSE b.n > 0

\* The integer nearest to n/d (d > 0), a tie going away from zero.
RoundHalfAway(n, d) == Sign(n) * ((2 * Abs(n) + d) \div (2 * d))

(***************************************************************************)
(* Presentation: formatCurrency and Number.prototype.toFixed(2).           *)
(***************************************************************************)
\* value.toLocaleString('en-GB', {maximumFractionDigits: 0}): whole pounds.
FormatCurrency(value) ==
    IF IsFinite(value) THEN Fin(RoundHalfAway(value.n, value.d), 1) ELSE value

\* value.toFixed(2): hundredths; "Infinity" and "NaN" are printed as such.
ToFixed2(value) ==
    IF IsFinite(value) THEN Fin(RoundHalfAway(100 * value.n, value.d), 100) ELSE value

(***************************************************************************)
(* The input layer: Number(e.target.value) and the clamps.                 *)
(* An entered value is what a type="number" field holds: a number, or      *)
(* the empty string (a blank or unparsable field).                         *)
(***************************************************************************)
Blank == [blank |-> TRUE, num |-> 0]
Entry(x) == [blank |-> FALSE, num |-> x]

Number(e) == IF e.blank THEN 0 ELSE e.num

Max(a, b) == IF a >= b THEN a ELSE b

ClampDaysLoose(e) == Max(0, Number(e))
ClampDays(e) == Max(1, Number(e))

ClampRevenue(e) == Max(0, Number(e))

EnteredDays(max) == {Blank} \cup {Entry(x) : x \in (-1 .. max) \cup {14}}

\* The entries of the two-instance runs: durations blank or 14, revenues from 1000.
PairEnteredDays == {Blank, Entry(14)}

PairEnteredRevenue(steps) == {Entry(1000 + 200 * s) : s \in 0 .. steps}

EnteredRevenue(steps) ==
    {Blank} \cup {Entry(x) : x \in {-100, 0} \cup {1000 + 100 * s : s \in 0 .. steps}}
             \cup {Entry(1200)}

(***************************************************************************)
(* The projection engine: the body of the useEffect.                       *)
(***************************************************************************)
Int2Js(x) == Fin(x, 1)

DailyRevenueDifference(variant, control) == JsSub(Int2Js(variant), Int2Js(control))

RawAnnualValue(days, control, variant) ==
    JsMul(JsDiv(DailyRevenueDifference(variant, control), Int2Js(days)), Int2Js(365))

AfterNoveltyEffectWrongFactor(rawAnnualValue) == JsMul(rawAnnualValue, Fin(7, 10))
AfterNoveltyEffect(rawAnnualValue) == JsMul(rawAnnualValue, Fin(75, 100))

LowerRange(afterNoveltyEffect) == JsMul(afterNoveltyEffect, Fin(7, 10))

UpperRange(afterNoveltyEffect) == afterNoveltyEffect

\* The object handed to setAnnualProjection.
Projection(rawAnnualValue) ==
    LET afterNoveltyEffect == AfterNoveltyEffect(rawAnnualValue)
    IN  [rawValue |-> rawAnnualValue,
         afterNovelty |-> afterNoveltyEffect,
         lowerRange |-> LowerRange(afterNoveltyEffect),
         upperRange |-> UpperRange(afterNoveltyEffect)]

\* useState's initial annualProjection.
InitialProjection ==
    [rawValue |-> Int2Js(0), afterNovelty |-> Int2Js(0),
     lowerRange |-> Int2Js(0), upperRange |-> Int2Js(0)]

Progress(month) == JsDiv(Int2Js(month), Int2Js(12))

EfficacyPercentageShortYear(month) ==
    LET progress == JsDiv(Int2Js(month), Int2Js(13))
    IN  JsSub(Int2Js(100),
              JsDiv(JsMul(Int2Js(25),
                          JsAdd(JsMul(JsMul(progress, progress), progress), progress)),
                    Int2Js(2)))
EfficacyPercentageNoLinearTerm(month) ==
    LET progress == Progress(month)
    IN  JsSub(Int2Js(100),
              JsDiv(JsMul(Int2Js(25),
                          JsSub(JsMul(JsMul(progress, progress), progress), progress)),
                    Int2Js(2)))
EfficacyPercentage(month) ==
    LET progress == Progress(month)
    IN  JsSub(Int2Js(100),
              JsDiv(JsMul(Int2Js(25),
                          JsAdd(JsMul(JsMul(progress, progress), progress), progress)),
                    Int2Js(2)))

MonthlyValue(rawAnnualValue, efficacyPercentage) ==
    JsMul(JsDiv(rawAnnualValue, Int2Js(12)), JsDiv(efficacyPercentage, Int2Js(100)))

Sample(month, rawAnnualValue) ==
    LET efficacyPercentage == EfficacyPercentage(month)
    IN  [month |-> month,
         efficacy |-> efficacyPercentage,
         projectedValue |-> MonthlyValue(rawAnnualValue, efficacyPercentage)]

LoopContinuesStrict(month) == month < 12
LoopContinues(month) == month <= 12

\* for (let month = 0; month <= 12; month++) data.push({...})
RECURSIVE DecayLoop(_, _, _)
DecayLoop(month, data, rawAnnualValue) ==
    IF LoopContinues(month)
    THEN DecayLoop(month + 1, Append(data, Sample(month, rawAnnualValue)), rawAnnualValue)
    ELSE data

\* What one run of the effect does with the held state: ran = FALSE is the
\* early return, which calls no setter.
EffectOutcomeClearing(days, control, variant, heldProjection, heldChart) ==
    IF days <= 0
    THEN [ran |-> FALSE, projection |-> InitialProjection, chart |-> <<>>]
    ELSE LET rawAnnualValue == RawAnnualValue(days, control, variant)
         IN  [ran |-> TRUE,
              projection |-> Projection(rawAnnualValue),
              chart |-> DecayLoop(0, <<>>, rawAnnualValue)]
EffectOutcomeAccumulating(days, control, variant, heldProjection, heldChart) ==
    IF days <= 0
    THEN [ran |-> FALSE, projection |-> heldProjection, chart |-> heldChart]
    ELSE LET rawAnnualValue == RawAnnualValue(days, control, variant)
         IN  [ran |-> TRUE,
              projection |-> Projection(rawAnnualValue),
              chart |-> DecayLoop(0, heldChart, rawAnnualValue)]
EffectOutcome(days, control, variant, heldProjection, heldChart) ==
    IF days <= 0
    THEN [ran |-> FALSE, projection |-> heldProjection, chart |-> heldChart]
    ELSE LET rawAnnualValue == RawAnnualValue(days, control, variant)
         IN  [ran |-> TRUE,
              projection |-> Projection(rawAnnualValue),
              chart |-> DecayLoop(0, <<>>, rawAnnualValue)]

(***************************************************************************)
(* The render: what the returned JSX shows.                                *)
(***************************************************************************)
DailyRevenueIncrease(days, control, variant) ==
    JsDiv(JsSub(Int2Js(variant), Int2Js(control)), Int2Js(days))

ExperimentLift(control, variant) ==
    JsMul(JsSub(JsDiv(Int2Js(variant), Int2Js(control)), Int2Js(1)), Int2Js(100))

View(days, control, variant, projection, chart) ==
    [rawValue |-> FormatCurrency(projection.rawValue),
     afterNovelty |-> FormatCurrency(projection.afterNovelty),
     lowerRange |-> FormatCurrency(projection.lowerRange),
     upperRange |-> FormatCurrency(projection.upperRange),
     dailyIncrease |-> FormatCurrency(DailyRevenueIncrease(days, control, variant)),
     lift |-> ToFixed2(ExperimentLift(control, variant)),
     chart |-> chart]

(***************************************************************************)
(* The component as a state machine.  Every variable is indexed by the     *)
(* mounted instance; instances share nothing.                              *)
(*   pc = "effect"  a render has committed and its effect is pending       *)
(*   pc = "render"  a setter has run and the re-render is pending          *)
(*   pc = "idle"    waiting for the next input event                       *)
(***************************************************************************)
Deps(i) == <<experimentDays[i], controlRevenue[i], variantRevenue[i]>>

Mount(instances) ==
    /\ experimentDays = [i \in instances |-> 14]
    /\ controlRevenue = [i \in instances |-> 1000]
    /\ variantRevenue = [i \in instances |-> 1200]
    /\ chartData = [i \in instances |-> <<>>]
    /\ annualProjection = [i \in instances |-> InitialProjection]
    /\ deps = [i \in instances |-> <<14, 1000, 1200>>]
    /\ dom = [i \in instances |-> View(14, 1000, 1200, InitialProjection, <<>>)]
    /\ pc = [i \in instances |-> "effect"]
    /\ lastEdit = [i \in instances |-> "none"]

\* How an edit is recorded: whether the clamp or the parse altered the entry.
EditKind(e, held) == IF ~e.blank /\ e.num = held THEN "asEntered" ELSE "clamped"

OnChangeExperimentDays(i, e) ==
    /\ pc[i] = "idle"
    /\ experimentDays' = [experimentDays EXCEPT ![i] = ClampDays(e)]
    /\ pc' = [pc EXCEPT ![i] = IF ClampDays(e) = experimentDays[i] THEN "idle" ELSE "render"]
    /\ lastEdit' = [lastEdit EXCEPT ![i] = EditKind(e, ClampDays(e))]
    /\ UNCHANGED <<controlRevenue, variantRevenue, chartData, annualProjection, deps, dom>>

OnChangeControlRevenue(i, e) ==
    /\ pc[i] = "idle"
    /\ controlRevenue' = [controlRevenue EXCEPT ![i] = ClampRevenue(e)]
    /\ pc' = [pc EXCEPT ![i] = IF ClampRevenue(e) = controlRevenue[i] THEN "idle" ELSE "render"]
    /\ lastEdit' = [lastEdit EXCEPT ![i] = EditKind(e, ClampRevenue(e))]
    /\ UNCHANGED <<experimentDays, variantRevenue, chartData, annualProjection, deps, dom>>

OnChangeVariantRevenue(i, e) ==
    /\ pc[i] = "idle"
    /\ variantRevenue' = [variantRevenue EXCEPT ![i] = ClampRevenue(e)]
    /\ pc' = [pc EXCEPT ![i] = IF ClampRevenue(e) = variantRevenue[i] THEN "idle" ELSE "render"]
    /\ lastEdit' = [lastEdit EXCEPT ![i] = EditKind(e, ClampRevenue(e))]
    /\ UNCHANGED <<experimentDays, controlRevenue, chartData, annualProjection, deps, dom>>

\* A re-render commits the view of the current hook state; the effect is
\* scheduled when the dependency array changed.
Render(i) ==
    /\ pc[i] = "render"
    /\ dom' = [dom EXCEPT ![i] = View(experimentDays[i], controlRevenue[i],
                                      variantRevenue[i], annualProjection[i], chartData[i])]
    /\ deps' = [deps EXCEPT ![i] = Deps(i)]
    /\ pc' = [pc EXCEPT ![i] = IF deps[i] = Deps(i) THEN "idle" ELSE "effect"]
    /\ UNCHANGED <<experimentDays, controlRevenue, variantRevenue,
                   chartData, annualProjection, lastEdit>>

UseEffect(i) ==
    /\ pc[i] = "effect"
    /\ \E out \in {EffectOutcome(experimentDays[i], controlRevenue[i], variantRevenue[i],
                                   annualProjection[i], chartData[i])} :
           /\ annualProjection' = [annualProjection EXCEPT ![i] = out.projection]
           /\ chartData' = [chartData EXCEPT ![i] = out.chart]
           /\ pc' = [pc EXCEPT ![i] = IF out.ran THEN "render" ELSE "idle"]
    /\ UNCHANGED <<experimentDays, controlRevenue, variantRevenue, deps, dom, lastEdit>>

Handlers(days, revenues) ==
    \E i \in DOMAIN pc :
        \/ \E e \in days : OnChangeExperimentDays(i, e)
        \/ \E e \in revenues : OnChangeControlRevenue(i, e)
        \/ \E e \in revenues : OnChangeVariantRevenue(i, e)

Reactive == \E i \in DOMAIN pc : Render(i) \/ UseEffect(i)

Init == Mount({"a"})

Next == Handlers(EnteredDays(MaxDays), EnteredRevenue(MaxRevenueSteps)) \/ Reactive

Spec == Init /\ [][Next]_vars

(***************************************************************************)
(* Two instances mounted side by side, each with its own edit history.     *)
(***************************************************************************)
InitPair == Mount({"a", "b"})

NextPair == Handlers(PairEnteredDays, PairEnteredRevenue(PairMaxRevenueSteps)) \/ Reactive

SpecPair == InitPair /\ [][NextPair]_vars

(***************************************************************************)
(* The effect driven directly: one instance whose hook state is drawn      *)
(* from bounded sets, durations of zero and below included, holding        *)
(* either the initial output or the output of an earlier run.              *)
(***************************************************************************)
ClampedRevenues(steps) == {ClampRevenue(e) : e \in EnteredRevenue(steps)}

ClampedDays(max) == {ClampDays(e) : e \in EnteredDays(max)}

HeldOutputs ==
    {[projection |-> InitialProjection, chart |-> <<>>]} \cup
    {[projection |-> Projection(RawAnnualValue(d, c, v)),
      chart |-> DecayLoop(0, <<>>, RawAnnualValue(d, c, v))] :
        d \in ClampedDays(MaxDays),
        c \in ClampedRevenues(MaxRevenueSteps),
        v \in ClampedRevenues(MaxRevenueSteps)}

InitEngine ==
    /\ experimentDays \in [{"a"} -> (-1 .. MaxDays) \cup {14}]
    /\ controlRevenue \in [{"a"} -> ClampedRevenues(MaxRevenueSteps)]
    /\ variantRevenue \in [{"a"} -> ClampedRevenues(MaxRevenueSteps)]
    /\ \E held \in HeldOutputs :
          /\ annualProjection = [i \in {"a"} |-> held.projection]
          /\ chartData = [i \in {"a"} |-> held.chart]
    /\ deps = [i \in {"a"} |-> Deps(i)]
    /\ dom = [i \in {"a"} |-> View(experimentDays[i], controlRevenue[i], variantRevenue[i],
                                   annualProjection[i], chartData[i])]
    /\ pc = [i \in {"a"} |-> "effect"]
    /\ lastEdit = [i \in {"a"} |-> "none"]

NextEngine == Reactive

SpecEngine == InitEngine /\ [][NextEngine]_vars

(***************************************************************************)
(* Properties.                                                             *)
(***************************************************************************)
Mounted == DOMAIN pc

\* C1: a run of the effect with experimentDays <= 0 changes neither the held
\* annual projection nor the held monthly series, and completes (the
\* instance goes idle without a re-render).
SkipKeepsHeldOutput ==
    [][\A i \in Mounted :
          (pc[i] = "effect" /\ experimentDays[i] <= 0 /\ pc'[i] # "effect")
              => /\ annualProjection'[i] = annualProjection[i]
                 /\ chartData'[i] = chartData[i]
                 /\ pc'[i] = "idle"]_vars

\* An instance that skipped while holding an earlier computed result.
SkipWithHeldResult ==
    \E i \in Mounted :
        /\ pc[i] = "idle"
        /\ experimentDays[i] <= 0
        /\ Len(chartData[i]) = 13
        /\ annualProjection[i].rawValue # Int2Js(0)

\* C2: the lift shown is never Infinity or NaN, and a view rendered with
\* controlRevenue = 0 shows the lift as an explicit absent marker.
LiftAbsentWhenControlZero ==
    \A i \in Mounted :
        /\ dom[i].lift.k \notin {"inf", "nan"}
        /\ (deps[i][2] = 0 => dom[i].lift.k = "absent")

\* C3: the held lowerRange is at most the held upperRange.
LowerRangeAtMostUpperRange ==
    \A i \in Mounted :
        JsLeq(annualProjection[i].lowerRange, annualProjection[i].upperRange)

\* The complete output of one input snapshot.
FullView(days, control, variant) ==
    View(days, control, variant, Projection(RawAnnualValue(days, control, variant)),
         DecayLoop(0, <<>>, RawAnnualValue(days, control, variant)))

\* C4: once an input has been edited, the committed view is the complete
\* output of one single valid input snapshot.
ViewOfOneSnapshot ==
    \A i \in Mounted :
        lastEdit[i] # "none" =>
            \E d \in ClampedDays(MaxDays) :
            \E c \in ClampedRevenues(MaxRevenueSteps) :
            \E v \in ClampedRevenues(MaxRevenueSteps) :
                dom[i] = FullView(d, c, v)

\* C5: after a recomputation the held projection is, for the inputs the
\* effect read (d, c, v): rawValue = (v - c) / d * 365, afterNovelty =
\* 0.75 * rawValue, upperRange = afterNovelty, lowerRange = 0.7 *
\* afterNovelty; for (14, 1000, 1200) that is 36500/7, 3910.71 and 2737.50
\* to the penny.
ProjectionFormulas ==
    \A i \in Mounted :
        pc[i] # "effect" =>
            LET d == deps[i][1]
                c == deps[i][2]
                v == deps[i][3]
                raw == annualProjection[i].rawValue
                after == annualProjection[i].afterNovelty
                lower == annualProjection[i].lowerRange
                upper == annualProjection[i].upperRange
            IN  /\ IsFinite(raw) /\ IsFinite(after) /\ IsFinite(lower)
                /\ raw.n * d = (v - c) * 365 * raw.d
                /\ 4 * after.n * raw.d = 3 * raw.n * after.d
                /\ upper = after
                /\ 10 * lower.n * after.d = 7 * after.n * lower.d
                /\ (d = 14 /\ c = 1000 /\ v = 1200) =>
                       /\ raw.n = 36500 /\ raw.d = 7
                       /\ RoundHalfAway(100 * after.n, after.d) = 391071
                       /\ RoundHalfAway(100 * upper.n, upper.d) = 391071
                       /\ RoundHalfAway(100 * lower.n, lower.d) = 273750

\* The example inputs recomputed after an edit took the instance away from them.
ExampleRecomputed ==
    \E i \in Mounted :
        /\ pc[i] = "render"
        /\ deps[i] = <<14, 1000, 1200>>
        /\ Deps(i) = deps[i]
        /\ lastEdit[i] # "none"
        /\ Len(chartData[i]) = 13

\* C6: in every held series the sample of month 0 has efficacy 100 and the
\* sample of month 12 has efficacy 75.
EfficacyEndpoints ==
    \A i \in Mounted :
        \A k \in DOMAIN chartData[i] :
            /\ chartData[i][k].month = 0 => chartData[i][k].efficacy = Int2Js(100)
            /\ chartData[i][k].month = 12 => chartData[i][k].efficacy = Int2Js(75)

\* A series for a negative rawValue that holds both endpoint samples.
EndpointsOfNegativeSeries ==
    \E i \in Mounted :
        /\ ~JsLeq(Int2Js(0), annualProjection[i].rawValue)
        /\ \E k \in DOMAIN chartData[i] : chartData[i][k].month = 0
        /\ \E k \in DOMAIN chartData[i] : chartData[i][k].month = 12

\* C7: in every held series efficacy does not increase from one sample to the
\* next, and every efficacy lies in [75, 100].
EfficacyMonotoneInRange ==
    \A i \in Mounted :
        \A k \in DOMAIN chartData[i] :
            /\ JsLeq(Int2Js(75), chartData[i][k].efficacy)
            /\ JsLeq(chartData[i][k].efficacy, Int2Js(100))
            /\ k < Len(chartData[i]) =>
                   /\ chartData[i][k].month + 1 = chartData[i][k + 1].month
                   /\ JsLeq(chartData[i][k + 1].efficacy, chartData[i][k].efficacy)

\* A held series in which efficacy strictly falls at every one of the 12 steps.
StrictlyDecayingSeries ==
    \E i \in Mounted :
        /\ Len(chartData[i]) = 13
        /\ \A k \in 1 .. 12 :
               ~JsLeq(chartData[i][k].efficacy, chartData[i][k + 1].efficacy)

\* C8: the held series is empty (nothing computed yet) or has exactly 13
\* samples, months 0..12 in order, each with projectedValue = rawValue / 12
\* * efficacy / 100 and with the efficacy of the closed form
\* 100 - 25 * (m^3 + 144 m) / 3456, whatever rawValue is; with rawValue = 0
\* every projectedValue is 0.
SeriesShape ==
    \A i \in Mounted :
        \/ chartData[i] = <<>> /\ annualProjection[i] = InitialProjection
        \/ /\ Len(chartData[i]) = 13
           /\ \A k \in 1 .. 13 :
                 LET s == chartData[i][k]
                     raw == annualProjection[i].rawValue
                     m == k - 1
                 IN  /\ s.month = m
                     /\ IsFinite(s.efficacy) /\ IsFinite(s.projectedValue)
                     /\ s.efficacy.n * 3456 = (345600 - 25 * (m * m * m + 144 * m)) * s.efficacy.d
                     /\ s.projectedValue = JsMul(JsDiv(raw, Int2Js(1200)), s.efficacy)
                     /\ raw = Int2Js(0) => s.projectedValue = Int2Js(0)

\* A series recomputed for equal revenues (rawValue = 0) after an edit.
SeriesOfZeroRawValue ==
    \E i \in Mounted :
        /\ Len(chartData[i]) = 13
        /\ lastEdit[i] # "none"
        /\ pc[i] = "idle"
        /\ controlRevenue[i] = variantRevenue[i]
        /\ annualProjection[i].rawValue = Int2Js(0)

\* C9: two instances at rest with the same three inputs hold the same
\* projection and the same series, whatever their histories were.
OutputDeterminedByInputs ==
    \A i, j \in Mounted :
        (pc[i] = "idle" /\ pc[j] = "idle" /\ Deps(i) = Deps(j))
            => /\ annualProjection[i] = annualProjection[j]
               /\ chartData[i] = chartData[j]

\* One instance never edited, the other edited away and back to the same inputs.
SameInputsDifferentHistories ==
    /\ Mounted = {"a", "b"}
    /\ pc["a"] = "idle" /\ pc["b"] = "idle"
    /\ Deps("a") = Deps("b")
    /\ lastEdit["a"] = "none"
    /\ lastEdit["b"] # "none"

\* C10: the held experimentDays is at least 1 and the held revenues are at
\* least 0, so no run of the effect sees experimentDays <= 0 or a negative
\* revenue.
InputsClamped ==
    \A i \in Mounted :
        /\ experimentDays[i] >= 1
        /\ controlRevenue[i] >= 0
        /\ variantRevenue[i] >= 0

\* All three fields at their floors, the last entry having been clamped, and
\* the effect about to run on them.
ClampedEntryReachesEngine ==
    \E i \in Mounted :
        /\ lastEdit[i] = "clamped"
        /\ experimentDays[i] = 1
        /\ controlRevenue[i] = 0
        /\ variantRevenue[i] = 0
        /\ pc[i] = "effect"

====
